---- MODULE Spec2Model ----
(***************************************************************************)
(* Model of the orchestration kernel of ai-hedge-fund-aztp:                *)
(*   src/src/main.py            secure_wrap_agents, create_workflow,       *)
(*                              run_hedge_fund                             *)
(*   src/src/utils/analysts.py  ANALYST_CONFIG, ANALYST_ORDER,             *)
(*                              get_analyst_nodes                          *)
(* One run of run_hedge_fund is followed from its first statement to its   *)
(* return.  The identity authority (aztp_client) and the agents are the    *)
(* environment: a registration, a verification, an identity lookup and an  *)
(* agent call each either complete or raise, and a verification answers    *)
(* true or false.                                                          *)
(***************************************************************************)
EXTENDS Integers, Sequences, FiniteSets, TLC

(* ---- bounds ---- *)

\* longest explicit analyst list a caller passes to run_hedge_fund
MaxSel == 3

\* longest message content, in tokens, handed to parse_hedge_fund_response
MaxPayload == 5

\* longest content, in tokens, of the last message of a finished run
MaxFinal == 2

(* ---- constants of the program ---- *)

\* main.py:42-52, the agents dict of secure_wrap_agents in insertion order
Agents ==
    << "warren_buffett", "ben_graham", "bill_ackman", "fundamentals",
       "technicals", "sentiment", "valuation", "portfolio", "risk" >>

AgentNames == { Agents[i] : i \in 1..Len(Agents) }

\* analysts.py:6-42, registry entry -> its "key" and "order" fields
ANALYST_CONFIG ==
    [ ben_graham           |-> [key |-> "ben_graham",     order |-> 0],
      bill_ackman          |-> [key |-> "bill_ackman",    order |-> 1],
      warren_buffett       |-> [key |-> "warren_buffett", order |-> 2],
      technical_analyst    |-> [key |-> "technicals",     order |-> 3],
      fundamentals_analyst |-> [key |-> "fundamentals",   order |-> 4],
      sentiment_analyst    |-> [key |-> "sentiment",      order |-> 5],
      valuation_analyst    |-> [key |-> "valuation",      order |-> 6] ]

\* analysts.py:45-48, sorted(ANALYST_CONFIG.keys(), key = order): the key at
\* position i is the one with exactly i-1 keys of smaller order
ANALYST_ORDER ==
    [ i \in 1..Cardinality(DOMAIN ANALYST_CONFIG) |->
        CHOOSE k \in DOMAIN ANALYST_CONFIG :
            Cardinality({ j \in DOMAIN ANALYST_CONFIG :
                ANALYST_CONFIG[j].order < ANALYST_CONFIG[k].order }) = i - 1 ]

\* langgraph's reserved entry and exit markers, and the node main.py:127 adds
LG_START == "__start__"
LG_END == "__end__"
StartNode == "START"

\* keys a caller may put in selected_analysts: the registry keys and two keys
\* that name secured agents without a registry entry
Keys == DOMAIN ANALYST_CONFIG \cup {"portfolio", "risk"}

\* the lists a caller passes: every list of up to MaxSel keys, and the
\* registry's own order passed explicitly
Requests == UNION { [1..n -> Keys] : n \in 0..MaxSel } \cup {ANALYST_ORDER}

(* ---- state ---- *)

VARIABLES
    pc,                \* position of run_hedge_fund
    entry,             \* the function the caller entered
    client,            \* TRUE once the local `client` is bound (main.py:168)
    regState,          \* per agent: state of its secure_connect request
    secured_agents,    \* name -> connection its wrapped callable closes over
    verState,          \* per agent: state of its verify_identity request
    outOfOrder,        \* history: a verification completed before an earlier one
    regCount,          \* per agent: number of secure_connect requests issued
    verCount,          \* per agent: number of verify_identity requests issued
    verCred,           \* per name: connection handed to verify_identity
    identCred,         \* per name: connection handed to get_identity
    selected_analysts, \* the selected_analysts argument, read at main.py:178
    nodes,             \* nodes of the StateGraph
    edges,             \* edges of the StateGraph
    frontier,          \* nodes scheduled for the current step of invoke
    running,           \* nodes whose callable has begun and not yet returned
    nextFrontier,      \* successors collected for the next step of invoke
    calls,             \* history: agent callables invoked, in order
    analyst_signals,   \* keys of data["analyst_signals"]
    failed,            \* node whose callable raised, or "none"
    progressStarts,    \* number of progress.start() calls
    progressStops,     \* number of progress.stop() calls
    error,             \* where the exception was raised, or "none"
    content,           \* content of the last message of the final state
    decisions,         \* the "decisions" entry of the result mapping
    result             \* what run_hedge_fund gave its caller

vars == << pc, entry, client, regState, secured_agents, verState, outOfOrder,
           regCount, verCount, verCred, identCred, content, decisions,
           selected_analysts, nodes, edges, frontier, running, nextFrontier,
           calls, analyst_signals, failed, progressStarts, progressStops,
           error, result >>

countVars == << regCount, verCount >>
credVars == << verCred, identCred >>
securingVars == << regState, secured_agents, verState, outOfOrder, countVars,
                  credVars >>
outVars == << content, decisions >>
graphVars == << nodes, edges >>
execVars == << frontier, running, nextFrontier, calls, analyst_signals, failed >>
progressVars == << progressStarts, progressStops >>

(* ---- helpers ---- *)

IndexOf(a) == CHOOSE i \in 1..Len(Agents) : Agents[i] = a

Range(s) == { s[i] : i \in 1..Len(s) }

\* main.py:215-221, the except clause of run_hedge_fund: hasattr(client, ...)
\* reads the local `client`; unbound, the read raises UnboundLocalError out of
\* the handler, otherwise the handler returns None
HandlerResult(bound) == IF bound THEN "None" ELSE "UnboundLocalError"

\* no result mapping has been made
NoDecision == [kind |-> "unset", keys |-> {}]

Init ==
    /\ pc = "start"
    /\ entry = "run_hedge_fund"
    /\ client = FALSE
    /\ regState = [a \in AgentNames |-> "none"]
    /\ secured_agents = [a \in AgentNames |-> "none"]
    /\ verState = [a \in AgentNames |-> "none"]
    /\ outOfOrder = FALSE
    /\ regCount = [a \in AgentNames |-> 0]
    /\ verCount = [a \in AgentNames |-> 0]
    /\ verCred = [a \in AgentNames |-> "none"]
    /\ identCred = [a \in AgentNames |-> "none"]
    /\ content = << >>
    /\ decisions = NoDecision
    /\ selected_analysts = << >>
    /\ nodes = {}
    /\ edges = {}
    /\ frontier = {}
    /\ running = {}
    /\ nextFrontier = {}
    /\ calls = << >>
    /\ analyst_signals = {}
    /\ failed = "none"
    /\ progressStarts = 0
    /\ progressStops = 0
    /\ error = "none"
    /\ result = "none"

\* an exception raised at main.py:164-171, outside the inner try
RaiseOuter(bound, at) ==
    /\ pc' = "returned"
    /\ error' = at
    /\ result' = HandlerResult(bound)

\* main.py:164-168
GetApiKey ==
    /\ pc = "start"
    /\ \E api_key \in BOOLEAN :
        IF api_key
        THEN /\ client' = TRUE
             /\ pc' = "register"
             /\ UNCHANGED << error, result >>
        ELSE /\ client' = FALSE
             /\ RaiseOuter(FALSE, "api_key")
    /\ UNCHANGED << entry, outVars, securingVars, selected_analysts, graphVars,
                    execVars, progressVars >>

(* ---- securing phase: secure_wrap_agents, main.py:39-103 ---- *)

\* variant: an agent that is already registered is registered again
CanIssueRegistrationAgain(rs, a) ==
    /\ rs[a] \in {"none", "done"}
    /\ \A i \in 1..(IndexOf(a) - 1) : rs[Agents[i]] = "done"

\* variant: a request is issued without waiting for the earlier ones
CanIssueRegistrationAny(rs, a) == rs[a] = "none"

\* main.py:71-76: the loop awaits each secure_connect before it moves to the
\* next dict entry, so a request is issued only when every earlier one is done
CanIssueRegistration(rs, a) ==
    /\ rs[a] = "none"
    /\ \A i \in 1..(IndexOf(a) - 1) : rs[Agents[i]] = "done"

\* main.py:73, the call of client.secure_connect for one agent
SecureConnectIssue(a) ==
    /\ pc = "register"
    /\ CanIssueRegistration(regState, a)
    /\ regState' = [regState EXCEPT ![a] = "pending"]
    /\ regCount' = [regCount EXCEPT ![a] = @ + 1]
    /\ UNCHANGED << pc, entry, outVars, client, secured_agents, verState,
                    outOfOrder, verCount, credVars,
                    selected_analysts, graphVars, execVars, progressVars,
                    error, result >>

\* main.py:89 and 99, agent.__closure__[0].cell_contents: the connection a
\* wrapped callable closes over (a callable is kept as that connection)
ClosureCell(callable) == callable

\* variant: wrapped_agent reads the loop variable secured_conn itself, so
\* every callable made so far sees the connection of the latest iteration
MakeCallableLate(sa, name, conn) ==
    [ a \in AgentNames |-> IF a = name \/ sa[a] # "none" THEN conn ELSE "none" ]

\* main.py:79-84, make_callable(secured_conn): the wrapped callable closes
\* over the connection of this very iteration
MakeCallable(sa, name, conn) == [sa EXCEPT ![name] = conn]

\* main.py:73-84, secure_connect returns a connection and the callable is stored
SecureConnectReturn(a) ==
    /\ pc = "register"
    /\ regState[a] = "pending"
    /\ regState' = [regState EXCEPT ![a] = "done"]
    /\ secured_agents' = MakeCallable(secured_agents, a, a)
    /\ UNCHANGED << pc, entry, outVars, client, verState, outOfOrder,
                    countVars, credVars, selected_analysts,
                    graphVars, execVars, progressVars, error, result >>

\* variant: the failed registration is noted and the loop goes on
SecureConnectRaiseSwallow(a) ==
    /\ pc = "register"
    /\ regState[a] = "pending"
    /\ regState' = [regState EXCEPT ![a] = "failed"]
    /\ UNCHANGED << pc, entry, outVars, client, secured_agents, verState,
                    outOfOrder, countVars, credVars, selected_analysts,
                    graphVars, execVars, progressVars, error, result >>

\* main.py:73, secure_connect raises: the exception leaves secure_wrap_agents
SecureConnectRaise(a) ==
    /\ pc = "register"
    /\ regState[a] = "pending"
    /\ regState' = [regState EXCEPT ![a] = "failed"]
    /\ RaiseOuter(client, "secure_connect")
    /\ UNCHANGED << entry, outVars, client, secured_agents, verState,
                    outOfOrder, countVars, credVars,
                    selected_analysts, graphVars, execVars, progressVars >>

\* main.py:86-88: the verification code is reached when the loop is over
RegistrationsDone(rs) == \A a \in AgentNames : rs[a] = "done"

\* main.py:88-92: one verify_identity per entry of secured_agents, all handed
\* to asyncio.gather, which starts every one of them before any can complete
GatherVerify ==
    /\ pc = "register"
    /\ RegistrationsDone(regState)
    /\ verState' = [a \in AgentNames |->
                      IF secured_agents[a] # "none" THEN "pending" ELSE "none"]
    /\ verCount' = [a \in AgentNames |->
                      IF secured_agents[a] # "none" THEN verCount[a] + 1
                      ELSE verCount[a]]
    /\ verCred' = [a \in AgentNames |-> ClosureCell(secured_agents[a])]
    /\ pc' = "verifying"
    /\ UNCHANGED << entry, outVars, client, regState, secured_agents,
                    outOfOrder, regCount, identCred,
                    selected_analysts, graphVars, execVars, progressVars,
                    error, result >>

EarlierPending(vs, a) ==
    \E i \in 1..(IndexOf(a) - 1) : vs[Agents[i]] = "pending"

\* a verify_identity answers true or false
VerifyReturn(a) ==
    /\ pc = "verifying"
    /\ verState[a] = "pending"
    /\ \E valid \in BOOLEAN :
        verState' = [verState EXCEPT ![a] = IF valid THEN "true" ELSE "false"]
    /\ outOfOrder' = (outOfOrder \/ EarlierPending(verState, a))
    /\ UNCHANGED << pc, entry, outVars, client, regState, secured_agents,
                    countVars, credVars, selected_analysts,
                    graphVars, execVars, progressVars, error, result >>

\* main.py:92: gather (return_exceptions = False) hands the first exception to
\* its awaiter at once; the other verifications are left as they are
VerifyRaise(a) ==
    /\ pc = "verifying"
    /\ verState[a] = "pending"
    /\ verState' = [verState EXCEPT ![a] = "raised"]
    /\ outOfOrder' = (outOfOrder \/ EarlierPending(verState, a))
    /\ RaiseOuter(client, "verify_identity")
    /\ UNCHANGED << entry, outVars, client, regState, secured_agents,
                    countVars, credVars, selected_analysts,
                    graphVars, execVars, progressVars >>

\* variant: the await resumes as soon as one verification has a result
GatherCompleteAny(vs) == \E a \in AgentNames : vs[a] \in {"true", "false"}

\* main.py:92: gather returns its list when every awaitable has a result
GatherComplete(vs) == \A a \in AgentNames : vs[a] \in {"true", "false"}

\* variant: only the agents the registry exposes have to be valid
AllValidAnalysts(vs) ==
    \A a \in AgentNames \ {"portfolio", "risk"} : vs[a] = "true"

\* variant: any(agents_valid)
AnyValid(vs) == \E a \in AgentNames : vs[a] = "true"

\* main.py:94, all(agents_valid)
AllValid(vs) == \A a \in AgentNames : vs[a] = "true"

\* main.py:92-95: the await on gather resumes; ValueError unless all are valid
GatherDone ==
    /\ pc = "verifying"
    /\ GatherComplete(verState)
    /\ IF AllValid(verState)
       THEN /\ pc' = "identities"
            /\ UNCHANGED << error, result >>
       ELSE RaiseOuter(client, "verification")
    /\ UNCHANGED << entry, outVars, client, securingVars, selected_analysts, graphVars,
                    execVars, progressVars >>

\* main.py:97-103 and 171: the get_identity loop over secured_agents in dict
\* order, then secured_agents is returned; a get_identity that raises leaves
\* secure_wrap_agents.  last is the position of the last lookup made.
GetIdentities ==
    /\ pc = "identities"
    /\ \E last \in 1..Len(Agents), ok \in BOOLEAN :
        /\ ok => last = Len(Agents)
        /\ identCred' = [a \in AgentNames |->
                            IF IndexOf(a) <= last
                            THEN ClosureCell(secured_agents[a]) ELSE "none"]
        /\ IF ok
           THEN /\ pc' = "secured"
                /\ UNCHANGED << error, result >>
           ELSE RaiseOuter(client, "get_identity")
    /\ UNCHANGED << entry, outVars, client, regState, secured_agents, verState,
                    outOfOrder, countVars, verCred, selected_analysts,
                    graphVars, execVars, progressVars >>

\* main.py:174
ProgressStart ==
    /\ pc = "secured"
    /\ progressStarts' = progressStarts + 1
    /\ pc' = "build"
    /\ UNCHANGED << entry, outVars, client, securingVars, selected_analysts, graphVars,
                    execVars, progressStops, error, result >>

(* ---- registry: utils/analysts.py ---- *)

\* analysts.py:81-89, registry key -> the name it reads from secured_agents
NodeSource ==
    [ ben_graham           |-> "ben_graham",
      bill_ackman          |-> "bill_ackman",
      warren_buffett       |-> "warren_buffett",
      technical_analyst    |-> "technicals",
      fundamentals_analyst |-> "fundamentals",
      sentiment_analyst    |-> "sentiment",
      valuation_analyst    |-> "valuation" ]

\* analysts.py:81-89: every one of the seven subscripts is evaluated, so one
\* missing name is a KeyError whatever keys were requested
MissingSecured(sa) == \E k \in DOMAIN NodeSource : sa[NodeSource[k]] = "none"

\* variant: two registry keys read each other's secured agent
get_analyst_nodes_swapped(sa) ==
    [ k \in DOMAIN NodeSource |->
        IF k = "technical_analyst" THEN sa["fundamentals"]
        ELSE IF k = "fundamentals_analyst" THEN sa["technicals"]
        ELSE sa[NodeSource[k]] ]

\* analysts.py:80-89, get_analyst_nodes(secured_agents)
get_analyst_nodes(sa) == [ k \in DOMAIN NodeSource |-> sa[NodeSource[k]] ]

(* ---- builder: create_workflow, main.py:114-148 ---- *)

\* variant: adding a node that is already present is accepted
RECURSIVE AddAnalystNodesLenient(_, _, _, _)
AddAnalystNodesLenient(sel, i, catalog, g) ==
    IF i > Len(sel) THEN g
    ELSE IF sel[i] \notin catalog
    THEN AddAnalystNodesLenient(sel, i + 1, catalog, g)
    ELSE AddAnalystNodesLenient(sel, i + 1, catalog,
            [ raised |-> FALSE,
              nodes  |-> g.nodes \cup {sel[i]},
              edges  |-> g.edges \cup
                         (IF sel[i] = sel[1] THEN {<< StartNode, sel[i] >>}
                                              ELSE {}) ])

\* main.py:130-135, the add_node loop from position i on; langgraph's add_node
\* raises ValueError for a node name that is already present
RECURSIVE AddAnalystNodes(_, _, _, _)
AddAnalystNodes(sel, i, catalog, g) ==
    IF i > Len(sel) THEN g
    ELSE IF sel[i] \notin catalog THEN AddAnalystNodes(sel, i + 1, catalog, g)
    ELSE IF sel[i] \in g.nodes THEN [g EXCEPT !.raised = TRUE]
    ELSE AddAnalystNodes(sel, i + 1, catalog,
            [ raised |-> FALSE,
              nodes  |-> g.nodes \cup {sel[i]},
              edges  |-> g.edges \cup
                         (IF sel[i] = sel[1] THEN {<< StartNode, sel[i] >>}
                                              ELSE {}) ])

\* variant: every later key is wired to the first one
ChainEdgesFan(sel) == { << sel[1], sel[i + 1] >> : i \in 1..(Len(sel) - 1) }

\* main.py:138-139
ChainEdges(sel) == { << sel[i], sel[i + 1] >> : i \in 1..(Len(sel) - 1) }

\* variant: the exit edge leaves the first key
EndEdgeFirst(sel) == IF sel # << >> THEN {<< sel[1], LG_END >>} ELSE {}

\* main.py:142-143
EndEdge(sel) == IF sel # << >> THEN {<< sel[Len(sel)], LG_END >>} ELSE {}

\* main.py:146, set_entry_point("START")
EntryEdge == {<< LG_START, StartNode >>}

\* main.py:114-148; raised is TRUE when get_analyst_nodes or add_node raised
create_workflow(sel, sa) ==
    IF MissingSecured(sa)
    THEN [ raised |-> TRUE, nodes |-> {}, edges |-> {} ]
    ELSE LET g == AddAnalystNodes(sel, 1, DOMAIN get_analyst_nodes(sa),
                     [ raised |-> FALSE, nodes |-> {StartNode}, edges |-> {} ])
         IN  IF g.raised THEN g
             ELSE [ raised |-> FALSE,
                    nodes  |-> g.nodes,
                    edges  |-> g.edges \cup ChainEdges(sel) \cup EndEdge(sel)
                                       \cup EntryEdge ]

\* variant: the default branch takes the registry keys in descending order
PipelineKeysDescending(sel) ==
    IF sel # << >> THEN sel
    ELSE [ i \in 1..Len(ANALYST_ORDER) |->
             ANALYST_ORDER[Len(ANALYST_ORDER) + 1 - i] ]

\* main.py:178-184: the list handed to create_workflow
PipelineKeys(sel) == IF sel # << >> THEN sel ELSE ANALYST_ORDER

(* ---- compile and invoke: main.py:180-206 ---- *)

\* main.py:180/184, workflow.compile(): langgraph's validation accepts a graph
\* whose edges start at a node or the entry marker, end at a node or the exit
\* marker, and that has an edge out of the entry marker
ValidGraph(ns, es) ==
    /\ \A e \in es : e[1] \in ns \cup {LG_START}
    /\ \A e \in es : e[2] \in ns \cup {LG_END}
    /\ \E e \in es : e[1] = LG_START

\* nodes without an outgoing edge; langgraph releases differ in whether
\* compile() rejects them
DeadEnds(ns, es) == { n \in ns : ~ \E e \in es : e[1] = n }

Succ(es, n) == { e[2] : e \in { d \in es : d[1] = n } }

\* the callable add_node bound to a node (main.py:127 and 132)
NodeCallable(n) ==
    IF n = StartNode THEN "start_node"
    ELSE get_analyst_nodes(secured_agents)[n]

\* the registry key an agent signs its signal with: the ANALYST_CONFIG entry
\* whose "key" field names the agent
OwnKey(c) == CHOOSE k \in DOMAIN ANALYST_CONFIG : ANALYST_CONFIG[k].key = c

\* an agent that succeeds adds one entry under its own key
AgentWrites(signals, c) == signals \cup {OwnKey(c)}

\* variant: no finally clause, the progress display is left running
RaiseInnerNoFinally(at) ==
    /\ pc' = "returned"
    /\ error' = at
    /\ result' = IF entry = "run_hedge_fund" THEN HandlerResult(client)
                 ELSE "raised"
    /\ UNCHANGED << progressStarts, progressStops >>

\* an exception inside the inner try of run_hedge_fund (main.py:176-214): the
\* finally clause stops the progress display, then the handler runs; called on
\* its own, the builder or the pipeline just raises to its caller
RaiseInner(at) ==
    /\ pc' = "returned"
    /\ error' = at
    /\ IF entry = "run_hedge_fund"
       THEN /\ progressStops' = progressStops + 1
            /\ result' = HandlerResult(client)
       ELSE /\ result' = "raised"
            /\ UNCHANGED progressStops
    /\ UNCHANGED progressStarts

\* main.py:178-179 and 183: selected_analysts is read and the graph is built
CreateWorkflow ==
    /\ pc = "build"
    /\ \E sel \in Requests :
        /\ selected_analysts' = sel
        /\ LET g == create_workflow(PipelineKeys(sel), secured_agents)
           IN  IF g.raised
               THEN /\ RaiseInner("create_workflow")
                    /\ UNCHANGED graphVars
               ELSE /\ nodes' = g.nodes
                    /\ edges' = g.edges
                    /\ pc' = "compile"
                    /\ UNCHANGED << progressVars, error, result >>
    /\ UNCHANGED << entry, outVars, client, securingVars, execVars >>

\* create_workflow called on its own with the key list as given
CreateWorkflowDirect ==
    /\ pc = "create_workflow"
    /\ LET g == create_workflow(selected_analysts, secured_agents)
       IN  IF g.raised
           THEN /\ RaiseInner("create_workflow")
                /\ UNCHANGED graphVars
           ELSE /\ nodes' = g.nodes
                /\ edges' = g.edges
                /\ pc' = "compile"
                /\ UNCHANGED << progressVars, error, result >>
    /\ UNCHANGED << entry, outVars, client, securingVars, selected_analysts, execVars >>

\* main.py:180/184, workflow.compile()
Compile ==
    /\ pc = "compile"
    /\ \E rejectDeadEnds \in BOOLEAN :
        IF /\ ValidGraph(nodes, edges)
           /\ rejectDeadEnds => DeadEnds(nodes, edges) = {}
        THEN /\ pc' = "invoke"
             /\ UNCHANGED << progressVars, error, result >>
        ELSE RaiseInner("compile")
    /\ UNCHANGED << entry, outVars, client, securingVars, selected_analysts, graphVars,
                    execVars >>

\* main.py:186, agent.invoke(...): analyst_signals starts empty and the first
\* step runs the successors of the entry marker
InvokeBegin ==
    /\ pc = "invoke"
    /\ frontier' = Succ(edges, LG_START)
    /\ analyst_signals' = {}
    /\ pc' = "running"
    /\ UNCHANGED << entry, outVars, client, securingVars, selected_analysts, graphVars,
                    running, nextFrontier, calls, failed, progressVars,
                    error, result >>

\* a node of the current step is called with the state
NodeBegin(n) ==
    /\ pc = "running"
    /\ n \in frontier
    /\ frontier' = frontier \ {n}
    /\ running' = running \cup {n}
    /\ calls' = IF n = StartNode THEN calls ELSE Append(calls, NodeCallable(n))
    /\ UNCHANGED << pc, entry, outVars, client, securingVars, selected_analysts,
                    graphVars, nextFrontier, analyst_signals, failed,
                    progressVars, error, result >>

\* the node's callable returns: start_node returns the state as it is
\* (main.py:123-125), an agent returns it with its signal added
NodeReturn(n) ==
    /\ pc = "running"
    /\ n \in running
    /\ running' = running \ {n}
    /\ nextFrontier' = nextFrontier \cup (Succ(edges, n) \ {LG_END})
    /\ analyst_signals' = IF n = StartNode THEN analyst_signals
                          ELSE AgentWrites(analyst_signals, NodeCallable(n))
    /\ UNCHANGED << pc, entry, outVars, client, securingVars, selected_analysts,
                    graphVars, frontier, calls, failed, progressVars, error, result >>

\* variant: the executor notes the failure and goes on with the next node
NodeRaiseContinue(n) ==
    /\ pc = "running"
    /\ n \in running
    /\ n # StartNode
    /\ failed' = n
    /\ running' = running \ {n}
    /\ nextFrontier' = nextFrontier \cup (Succ(edges, n) \ {LG_END})
    /\ UNCHANGED << pc, entry, outVars, client, securingVars, selected_analysts,
                    graphVars, frontier, calls, analyst_signals, progressVars,
                    error, result >>

\* an agent raises: invoke raises, nothing is retried
NodeRaise(n) ==
    /\ pc = "running"
    /\ n \in running
    /\ n # StartNode
    /\ failed' = n
    /\ RaiseInner("agent")
    /\ UNCHANGED << entry, outVars, client, securingVars, selected_analysts, graphVars,
                    frontier, running, nextFrontier, calls, analyst_signals >>

\* every node of the step has returned: the next step begins
StepAdvance ==
    /\ pc = "running"
    /\ frontier = {}
    /\ running = {}
    /\ nextFrontier # {}
    /\ frontier' = nextFrontier
    /\ nextFrontier' = {}
    /\ UNCHANGED << pc, entry, outVars, client, securingVars, selected_analysts,
                    graphVars, running, calls, analyst_signals, failed,
                    progressVars, error, result >>

(* ---- decision extraction: parse_hedge_fund_response, main.py:105-112 ---- *)

\* a message content is a sequence of JSON tokens (a string, a number, braces
\* and the colon); NonString stands for a content that is not a str at all
Tokens == {"{", "}", ":", "AAPL", "10"}
NonString == << "<list>" >>
Payloads(n) == UNION { [1..k -> Tokens] : k \in 0..n } \cup {NonString}

\* json.loads on a token sequence from position i: a number, a string, the
\* empty object, or an object with one member whose value is parsed in turn;
\* next is the position after the value, keys the keys of the object
RECURSIVE ParseValue(_, _)
ParseValue(t, i) ==
    LET fail == [ok |-> FALSE, next |-> i, kind |-> "none", keys |-> {}] IN
    IF i > Len(t) THEN fail
    ELSE IF t[i] = "10"
    THEN [ok |-> TRUE, next |-> i + 1, kind |-> "number", keys |-> {}]
    ELSE IF t[i] = "AAPL"
    THEN [ok |-> TRUE, next |-> i + 1, kind |-> "string", keys |-> {}]
    ELSE IF t[i] = "{" /\ i + 1 <= Len(t) /\ t[i + 1] = "}"
    THEN [ok |-> TRUE, next |-> i + 2, kind |-> "object", keys |-> {}]
    ELSE IF t[i] = "{" /\ i + 2 <= Len(t) /\ t[i + 1] = "AAPL" /\ t[i + 2] = ":"
    THEN LET v == ParseValue(t, i + 3) IN
         IF v.ok /\ v.next <= Len(t) /\ t[v.next] = "}"
         THEN [ok |-> TRUE, next |-> v.next + 1, kind |-> "object",
               keys |-> {"AAPL"}]
         ELSE fail
    ELSE fail

\* main.py:109, json.loads(response): the value, or the exception it raises
json_loads(response) ==
    IF response = NonString
    THEN [exc |-> "TypeError", kind |-> "none", keys |-> {}]
    ELSE LET v == ParseValue(response, 1) IN
         IF v.ok /\ v.next = Len(response) + 1
         THEN [exc |-> "none", kind |-> v.kind, keys |-> v.keys]
         ELSE [exc |-> "JSONDecodeError", kind |-> "none", keys |-> {}]

\* variant: except json.JSONDecodeError
ExceptCatchesDecodeError(exc) == exc = "JSONDecodeError"

\* main.py:110, the bare except clause
ExceptCatches(exc) == TRUE

\* main.py:105-112: the parsed value, None when json.loads raised and the
\* except clause caught it, or the exception when it did not
parse_hedge_fund_response(response) ==
    LET r == json_loads(response) IN
    IF r.exc = "none" THEN [escaped |-> FALSE, kind |-> r.kind, keys |-> r.keys]
    ELSE IF ExceptCatches(r.exc)
    THEN [escaped |-> FALSE, kind |-> "None", keys |-> {}]
    ELSE [escaped |-> TRUE, kind |-> "none", keys |-> {}]

\* main.py:206-214: invoke returns the final state, whose last message is what
\* the last node left there; run_hedge_fund parses it and returns the result
\* mapping after the finally clause stopped the progress display
InvokeReturn ==
    /\ pc = "running"
    /\ frontier = {}
    /\ running = {}
    /\ nextFrontier = {}
    /\ IF entry = "run_hedge_fund"
       THEN \E c \in Payloads(MaxFinal) :
            LET d == parse_hedge_fund_response(c) IN
            /\ content' = c
            /\ IF d.escaped
               THEN /\ RaiseInner("parse")
                    /\ UNCHANGED decisions
               ELSE /\ pc' = "returned"
                    /\ progressStops' = progressStops + 1
                    /\ result' = "mapping"
                    /\ decisions' = [kind |-> d.kind, keys |-> d.keys]
                    /\ UNCHANGED << progressStarts, error >>
       ELSE /\ pc' = "returned"
            /\ result' = "state"
            /\ UNCHANGED << outVars, progressVars, error >>
    /\ UNCHANGED << entry, client, securingVars, selected_analysts, graphVars,
                    execVars >>

Next ==
    \/ GetApiKey
    \/ \E a \in AgentNames : SecureConnectIssue(a)
    \/ \E a \in AgentNames : SecureConnectReturn(a)
    \/ \E a \in AgentNames : SecureConnectRaise(a)
    \/ GatherVerify
    \/ \E a \in AgentNames : VerifyReturn(a)
    \/ \E a \in AgentNames : VerifyRaise(a)
    \/ GatherDone
    \/ GetIdentities
    \/ ProgressStart
    \/ CreateWorkflow
    \/ Compile
    \/ InvokeBegin
    \/ \E n \in Keys \cup {StartNode} : NodeBegin(n)
    \/ \E n \in Keys \cup {StartNode} : NodeReturn(n)
    \/ \E n \in Keys : NodeRaise(n)
    \/ StepAdvance
    \/ InvokeReturn

Spec == Init /\ [][Next]_vars

(* ---- create_workflow, compile and invoke on their own ---- *)

\* secured sets the builder can be handed: the full one, or one name missing
SecuredSets ==
    { [a \in AgentNames |-> a] } \cup
    { [a \in AgentNames |-> IF a = m THEN "none" ELSE a] :
        m \in {"technicals", "portfolio"} }

InitWorkflow ==
    /\ pc = "create_workflow"
    /\ entry = "create_workflow"
    /\ client = TRUE
    /\ regState = [a \in AgentNames |-> "done"]
    /\ secured_agents \in SecuredSets
    /\ verState = [a \in AgentNames |-> "true"]
    /\ outOfOrder = FALSE
    /\ regCount = [a \in AgentNames |-> 1]
    /\ verCount = [a \in AgentNames |-> 1]
    /\ verCred = [a \in AgentNames |-> secured_agents[a]]
    /\ identCred = [a \in AgentNames |-> secured_agents[a]]
    /\ content = << >>
    /\ decisions = NoDecision
    /\ selected_analysts \in Requests \cup {ANALYST_ORDER}
    /\ nodes = {}
    /\ edges = {}
    /\ frontier = {}
    /\ running = {}
    /\ nextFrontier = {}
    /\ calls = << >>
    /\ analyst_signals = {}
    /\ failed = "none"
    /\ progressStarts = 0
    /\ progressStops = 0
    /\ error = "none"
    /\ result = "none"

NextWorkflow ==
    \/ CreateWorkflowDirect
    \/ Compile
    \/ InvokeBegin
    \/ \E n \in Keys \cup {StartNode} : NodeBegin(n)
    \/ \E n \in Keys \cup {StartNode} : NodeReturn(n)
    \/ \E n \in Keys : NodeRaise(n)
    \/ StepAdvance
    \/ InvokeReturn

SpecWorkflow == InitWorkflow /\ [][NextWorkflow]_vars

(* ---- parse_hedge_fund_response on its own ---- *)

InitParse ==
    /\ pc = "parse"
    /\ entry = "parse_hedge_fund_response"
    /\ client = FALSE
    /\ regState = [a \in AgentNames |-> "none"]
    /\ secured_agents = [a \in AgentNames |-> "none"]
    /\ verState = [a \in AgentNames |-> "none"]
    /\ outOfOrder = FALSE
    /\ regCount = [a \in AgentNames |-> 0]
    /\ verCount = [a \in AgentNames |-> 0]
    /\ verCred = [a \in AgentNames |-> "none"]
    /\ identCred = [a \in AgentNames |-> "none"]
    /\ content \in Payloads(MaxPayload)
    /\ decisions = NoDecision
    /\ selected_analysts = << >>
    /\ nodes = {}
    /\ edges = {}
    /\ frontier = {}
    /\ running = {}
    /\ nextFrontier = {}
    /\ calls = << >>
    /\ analyst_signals = {}
    /\ failed = "none"
    /\ progressStarts = 0
    /\ progressStops = 0
    /\ error = "none"
    /\ result = "none"

\* main.py:105-112, one call of parse_hedge_fund_response(content)
ParseCall ==
    /\ pc = "parse"
    /\ LET d == parse_hedge_fund_response(content) IN
       IF d.escaped
       THEN /\ result' = "raised"
            /\ error' = "parse"
            /\ UNCHANGED decisions
       ELSE /\ result' = "value"
            /\ decisions' = [kind |-> d.kind, keys |-> d.keys]
            /\ UNCHANGED error
    /\ pc' = "returned"
    /\ UNCHANGED << entry, client, securingVars, selected_analysts, graphVars,
                    execVars, progressVars, content >>

\* a run of run_hedge_fund, or one call of parse_hedge_fund_response
NextDecisions == Next \/ ParseCall

SpecDecisions == (Init \/ InitParse) /\ [][NextDecisions]_vars

(* ---- properties ---- *)

DupFree(s) == \A i, j \in 1..Len(s) : i # j => s[i] # s[j]

Registered(s) == Range(s) \subseteq DOMAIN NodeSource

\* the callables a list of registered keys stands for, in order
Callables(s) == [ i \in 1..Len(s) |-> NodeSource[s[i]] ]

VerificationFailed == \E a \in AgentNames : verState[a] \in {"false", "raised"}

\* C1: once a verify_identity has answered false or raised, secure_wrap_agents
\* does not return its agents: no graph is ever built or compiled, no agent is
\* ever called, and the run does not produce a result mapping.
C1_AllOrNothingGate ==
    VerificationFailed =>
        /\ pc \in {"verifying", "returned"}
        /\ nodes = {} /\ edges = {}
        /\ calls = << >> /\ running = {} /\ frontier = {}
        /\ progressStarts = 0
        /\ result # "mapping"
        /\ pc = "returned" => error \in {"verification", "verify_identity"}

\* exactly one verification answered false, the eight others true, and the
\* run has ended
C1_Witness ==
    /\ pc = "returned"
    /\ error = "verification"
    /\ verState["sentiment"] = "false"
    /\ \A a \in AgentNames \ {"sentiment"} : verState[a] = "true"
    /\ calls = << >>

\* C2: for a duplicate-free list of registered keys the pipeline calls the
\* keys' callables in list order, one at a time: at most one node is
\* scheduled or running at any time, so a call begins only when the node
\* before it has returned, and a run that returns has called the whole list;
\* this holds whatever the order in which the verifications completed.
C2_SequentialInOrder ==
    LET keys == PipelineKeys(selected_analysts) IN
    (pc \in {"invoke", "running", "returned"} /\ nodes # {}
        /\ DupFree(keys) /\ Registered(keys)) =>
        /\ Cardinality(frontier \cup running) <= 1
        /\ Len(calls) <= Len(keys)
        /\ calls = SubSeq(Callables(keys), 1, Len(calls))
        /\ running # {} /\ running # {StartNode} => running = {keys[Len(calls)]}
        /\ result = "mapping" => Len(calls) = Len(keys)

\* three keys in an order that is neither the registry's nor the securing
\* order, all called, after verifications that completed out of order
C2_Witness ==
    /\ result = "mapping"
    /\ outOfOrder
    /\ selected_analysts = << "valuation_analyst", "ben_graham", "technical_analyst" >>
    /\ calls = << "valuation", "ben_graham", "technicals" >>

\* C3 as stated: registrations are issued concurrently, so while one
\* registration is still waiting for its answer every other agent's
\* registration request has been issued too.
C3_ConcurrentRegistration ==
    \A a, b \in AgentNames : regState[a] = "pending" => regState[b] # "none"

\* C3 amended: registration is sequential: an agent's secure_connect request
\* is issued only after the registration of every agent before it in the
\* agents dict has completed, so at most one registration is in flight.
C3_SequentialRegistration ==
    /\ \A a \in AgentNames : regState[a] # "none" =>
          \A i \in 1..(IndexOf(a) - 1) : regState[Agents[i]] = "done"
    /\ Cardinality({ a \in AgentNames : regState[a] = "pending" }) <= 1

\* the second registration is in flight and the third has not been issued
C3_Witness ==
    /\ regState["warren_buffett"] = "done"
    /\ regState["ben_graham"] = "pending"
    /\ regState["bill_ackman"] = "none"

\* C4 as stated: whatever fails inside run_hedge_fund, the caller gets None:
\* a run that ended gave its caller None or a result mapping, never an
\* exception, and after any failure it gave None.
C4_FailureReturnsSentinel ==
    (entry = "run_hedge_fund" /\ pc = "returned") =>
        /\ result \in {"None", "mapping"}
        /\ error # "none" => result = "None"

\* C5: when the agent at position k raises, the calls made are exactly the
\* callables of positions 0..k, each once, nothing is scheduled after it,
\* analyst_signals holds exactly the keys of positions 0..k-1, and the run
\* has returned None.
C5_FailureStopsChain ==
    LET keys == PipelineKeys(selected_analysts) IN
    failed # "none" =>
        LET k == CHOOSE i \in 1..Len(keys) : keys[i] = failed IN
        /\ pc = "returned" /\ error = "agent" /\ result = "None"
        /\ calls = SubSeq(Callables(keys), 1, k)
        /\ DupFree(calls)
        /\ frontier = {} /\ nextFrontier = {}
        /\ analyst_signals = { keys[i] : i \in 1..(k - 1) }

\* the second of three agents raised: the first one's signal is there, the
\* third was never called
C5_Witness ==
    /\ selected_analysts = << "ben_graham", "bill_ackman", "warren_buffett" >>
    /\ failed = "bill_ackman"
    /\ calls = << "ben_graham", "bill_ackman" >>
    /\ analyst_signals = {"ben_graham"}
    /\ result = "None"

\* C6: a run over a duplicate-free list of registered keys in which no node
\* raises returns a result mapping; then every key's agent was called exactly
\* once, no other agent was called, and the key set of analyst_signals is
\* exactly the set of keys of the list.
C6_OneSignalPerAgent ==
    LET keys == PipelineKeys(selected_analysts) IN
    /\ (pc = "returned" /\ progressStarts = 1 /\ failed = "none"
            /\ DupFree(keys) /\ Registered(keys)) => result = "mapping"
    /\ result = "mapping" =>
        /\ DupFree(keys) /\ Registered(keys)
        /\ Len(calls) = Len(keys)
        /\ Range(calls) = { NodeSource[k] : k \in Range(keys) }
        /\ analyst_signals = Range(keys)

\* a two-key subset whose registry keys differ from the secured names
C6_Witness ==
    /\ result = "mapping"
    /\ selected_analysts = << "sentiment_analyst", "technical_analyst" >>
    /\ analyst_signals = {"sentiment_analyst", "technical_analyst"}
    /\ Len(calls) = 2

C8_EmptyPipelineIdentity ==
    (entry = "create_workflow" /\ selected_analysts = << >>
        /\ pc # "create_workflow" /\ error # "create_workflow") =>
        /\ << StartNode, LG_END >> \in edges
        /\ pc = "returned" =>
              (result = "state" /\ calls = << >> /\ analyst_signals = {})

\* C9 as stated: a list with a repeated key is rejected by the builder when no
\* registration or verification request has been issued and no agent has been
\* called.
C9_DuplicateRejectedBeforeSecuring ==
    (entry = "run_hedge_fund" /\ ~ DupFree(selected_analysts)) =>
        /\ pc \in {"compile", "returned"}
        /\ calls = << >>
        /\ pc = "returned" =>
              /\ error \in {"create_workflow", "compile"}
              /\ \A a \in AgentNames :
                    regState[a] = "none" /\ verState[a] = "none"

\* C9 amended: a list with a repeated key never reaches execution: it is
\* rejected while the graph is built or compiled (by add_node when the
\* repeated key is a registry key), with no agent called; the rejection comes
\* only after the securing phase has completed, when all nine registrations
\* and verifications have been issued and answered.
C9_DuplicateRejectedAfterSecuring ==
    (entry = "run_hedge_fund" /\ ~ DupFree(selected_analysts)) =>
        /\ pc \in {"compile", "returned"}
        /\ pc = "returned" => error \in {"create_workflow", "compile"}
        /\ (\E i, j \in 1..Len(selected_analysts) :
                /\ i # j
                /\ selected_analysts[i] = selected_analysts[j]
                /\ selected_analysts[i] \in DOMAIN NodeSource) =>
              (pc = "returned" /\ error = "create_workflow" /\ nodes = {})
        /\ calls = << >> /\ frontier = {} /\ running = {}
        /\ result \in {"none", "None"}
        /\ \A a \in AgentNames : regState[a] = "done" /\ verState[a] = "true"

\* [A, A] has been rejected by add_node
C9_Witness ==
    /\ selected_analysts = << "ben_graham", "ben_graham" >>
    /\ pc = "returned"
    /\ error = "create_workflow"
    /\ result = "None"

\* C10 as stated: a requested key without a registry entry makes the request
\* fail with no node and no edge added; no graph that leaves the key's node
\* out, or has an edge at a node that was never added, is produced.
C10_UnknownKeyRejected ==
    (entry = "run_hedge_fund" /\ ~ Registered(selected_analysts)) =>
        /\ pc = "returned" /\ error = "create_workflow"
        /\ nodes = {} /\ edges = {}

\* parse_hedge_fund_response never raises: it returns the parsed value
\* exactly when the content is valid JSON and None otherwise
ParseFailsSoft ==
    (entry = "parse_hedge_fund_response" /\ pc = "returned") =>
        /\ result = "value" /\ error = "none"
        /\ decisions.kind \in {"number", "string", "object", "None"}
        /\ decisions.kind = "None" <=> json_loads(content).exc # "none"
        /\ "AAPL" \in decisions.keys =>
              (Len(content) >= 5 /\ content[1] = "{" /\ content[2] = "AAPL"
                  /\ content[Len(content)] = "}")

\* when every node succeeded, run_hedge_fund returns the result mapping
\* whatever the last message holds; an unparsable content gives decisions
\* None next to the final signals, never the sentinel None
ParseFailureNotFatal ==
    (entry = "run_hedge_fund" /\ pc = "returned" /\ progressStarts = 1
        /\ error \notin {"create_workflow", "compile", "agent"}) =>
        /\ result = "mapping" /\ error = "none"
        /\ analyst_signals = Range(PipelineKeys(selected_analysts))
        /\ decisions.kind = "None" <=> json_loads(content).exc # "none"
        /\ decisions.kind # "unset"

\* C11: decision extraction fails soft and is not fatal: for every content
\* parse_hedge_fund_response returns the parsed value or None and never
\* raises, and a run whose nodes all succeeded returns the result mapping,
\* with decisions None when the last message does not parse, and not the
\* sentinel None.
C11_DecisionExtraction == ParseFailsSoft /\ ParseFailureNotFatal

\* every node succeeded, the last message is not a str, decisions is None
C11_Witness ==
    /\ result = "mapping"
    /\ content = NonString
    /\ decisions.kind = "None"
    /\ analyst_signals = {"ben_graham", "valuation_analyst"}

SecuringSucceeded ==
    \/ pc \in {"secured", "build", "compile", "invoke", "running"}
    \/ pc = "returned" /\ progressStarts = 1

\* C12: in a run, secure_connect is requested at most once per agent and
\* verify_identity at most once per agent, also after a failure; when the
\* securing phase has succeeded each was requested exactly once per agent.
C12_EachIdentityCallOnce ==
    entry = "run_hedge_fund" =>
        /\ \A a \in AgentNames : regCount[a] <= 1 /\ verCount[a] <= 1
        /\ \A a \in AgentNames : regCount[a] = 1 <=> regState[a] # "none"
        /\ \A a \in AgentNames : verCount[a] = 1 <=> verState[a] # "none"
        /\ SecuringSucceeded =>
              \A a \in AgentNames : regCount[a] = 1 /\ verCount[a] = 1

\* the securing phase has just succeeded with one request of each kind per
\* agent
C12_Witness ==
    /\ pc = "secured"
    /\ \A a \in AgentNames : regCount[a] = 1 /\ verCount[a] = 1

\* C13: the callable stored under a name closes over the connection that
\* name's own registration returned, verify_identity and get_identity are
\* handed that same connection, and a node's call goes to the agent of the
\* connection registered under the name the registry reads for that node,
\* whose signal is what the node leaves in the state.
C13_IdentityBinding ==
    entry = "run_hedge_fund" =>
        /\ \A n \in AgentNames :
              /\ secured_agents[n] \in {"none", n}
              /\ regState[n] = "done" <=> secured_agents[n] = n
              /\ verCred[n] \in {"none", n}
              /\ verState[n] # "none" => verCred[n] = n
              /\ identCred[n] \in {"none", n}
              /\ SecuringSucceeded => identCred[n] = n
        /\ LET keys == PipelineKeys(selected_analysts) IN
           /\ \A i \in 1..Len(calls) : calls[i] = NodeSource[keys[i]]
           /\ analyst_signals \subseteq { OwnKey(calls[i]) : i \in 1..Len(calls) }

\* a node whose registry key differs from its secured name has been called
\* through its own connection
C13_Witness ==
    /\ pc = "running"
    /\ selected_analysts = << "technical_analyst" >>
    /\ calls = << "technicals" >>
    /\ secured_agents["technicals"] = "technicals"
    /\ verCred["technicals"] = "technicals"
    /\ identCred["technicals"] = "technicals"

\* the node reached from n in k steps along edges, for a graph in which every
\* node on the way has a single successor
RECURSIVE Follow(_, _, _)
Follow(es, n, k) ==
    IF k = 0 THEN n ELSE Follow(es, CHOOSE m \in Succ(es, n) : TRUE, k - 1)

\* C14: for a non-empty duplicate-free list of registered keys, and secured
\* agents for all registry entries, create_workflow returns a graph with
\* exactly the nodes START, k0..kn-1 and exactly the edges entry->START,
\* START->k0, ki->ki+1 and kn-1->END; every node has one successor, and the
\* walk from START passes k0..kn-1 in order and reaches END right after.
C14_ChainShape ==
    LET keys == selected_analysts
        n == Len(selected_analysts)
    IN  (entry = "create_workflow" /\ pc # "create_workflow" /\ n > 0
            /\ DupFree(keys) /\ Registered(keys)
            /\ ~ MissingSecured(secured_agents)) =>
            /\ error # "create_workflow"
            /\ nodes = {StartNode} \cup Range(keys)
            /\ edges = {<< LG_START, StartNode >>, << StartNode, keys[1] >>,
                        << keys[n], LG_END >>}
                       \cup { << keys[i], keys[i + 1] >> : i \in 1..(n - 1) }
            /\ \A m \in nodes : Cardinality(Succ(edges, m)) = 1
            /\ Succ(edges, LG_START) = {StartNode}
            /\ \A i \in 1..n : Follow(edges, StartNode, i) = keys[i]
            /\ Follow(edges, StartNode, n + 1) = LG_END

\* a three-key chain in an order of its own has been built
C14_Witness ==
    /\ entry = "create_workflow"
    /\ pc = "compile"
    /\ selected_analysts = << "bill_ackman", "sentiment_analyst", "ben_graham" >>
    /\ << "sentiment_analyst", "ben_graham" >> \in edges
    /\ << "ben_graham", LG_END >> \in edges

\* C15: once a secure_connect has failed, the run has ended with None: no
\* verification was requested, no later registration was requested, nothing
\* was built and no agent was called.
C15_RegistrationFailureAborts ==
    \A a \in AgentNames : regState[a] = "failed" =>
        /\ pc = "returned" /\ error = "secure_connect" /\ result = "None"
        /\ \A b \in AgentNames : verState[b] = "none" /\ verCount[b] = 0
        /\ \A b \in AgentNames : IndexOf(b) > IndexOf(a) => regCount[b] = 0
        /\ nodes = {} /\ edges = {}
        /\ calls = << >> /\ frontier = {} /\ running = {}
        /\ progressStarts = 0

\* the third registration failed after two that succeeded
C15_Witness ==
    /\ regState["warren_buffett"] = "done"
    /\ regState["ben_graham"] = "done"
    /\ regState["bill_ackman"] = "failed"
    /\ result = "None"

\* the seven registry keys in ascending "order" value
DefaultOrder ==
    << "ben_graham", "bill_ackman", "warren_buffett", "technical_analyst",
       "fundamentals_analyst", "sentiment_analyst", "valuation_analyst" >>

\* C16: a run with an empty selected_analysts and a run with selected_analysts
\* equal to the registry order are in the same states: the graph is the chain
\* over the seven keys in ascending order, the calls made are a prefix of the
\* seven agents in that order, the signals are those of the nodes that
\* returned, and the run ends with the mapping or, after an agent raised,
\* with None.
C16_DefaultEqualsExplicit ==
    (entry = "run_hedge_fund" /\ progressStarts = 1 /\ pc # "build"
        /\ selected_analysts \in {<< >>, DefaultOrder}) =>
        LET n == Len(calls)
            returned == IF running = {} /\ failed = "none" THEN n ELSE n - 1
        IN
        /\ error \in {"none", "agent"}
        /\ nodes = {StartNode} \cup Range(DefaultOrder)
        /\ edges = {<< LG_START, StartNode >>, << StartNode, DefaultOrder[1] >>,
                    << DefaultOrder[7], LG_END >>}
                   \cup { << DefaultOrder[i], DefaultOrder[i + 1] >> : i \in 1..6 }
        /\ calls = SubSeq(Callables(DefaultOrder), 1, n)
        /\ pc \in {"running", "returned"} =>
              analyst_signals = { DefaultOrder[i] : i \in 1..returned }
        /\ failed # "none" => (failed = DefaultOrder[n] /\ result = "None")
        /\ (pc = "returned" /\ failed = "none") => (result = "mapping" /\ n = 7)

\* the default path has run all seven agents in ascending order
C16_Witness ==
    /\ selected_analysts = << >>
    /\ result = "mapping"
    /\ calls = << "ben_graham", "bill_ackman", "warren_buffett", "technicals",
                 "fundamentals", "sentiment", "valuation" >>

\* C17: nine agents are registered and verified, but the callables of
\* portfolio and risk are never called, whatever list is selected; still, a
\* failed registration or a failed verification of any agent, portfolio and
\* risk included, keeps the run from building a graph or calling an agent.
C17_SecuredNeverExecuted ==
    entry = "run_hedge_fund" =>
        /\ "portfolio" \notin Range(calls) /\ "risk" \notin Range(calls)
        /\ {"portfolio", "risk"} \cap (frontier \cup running) = {}
        /\ SecuringSucceeded =>
              \A a \in AgentNames :
                 regState[a] = "done" /\ verState[a] = "true"
        /\ \A a \in AgentNames :
              (regState[a] = "failed" \/ verState[a] \in {"false", "raised"}) =>
                 /\ pc \in {"verifying", "returned"}
                 /\ nodes = {} /\ calls = << >> /\ result # "mapping"

\* only the verification of risk answered false, and the run has failed
C17_Witness ==
    /\ pc = "returned"
    /\ result = "None"
    /\ verState["risk"] = "false"
    /\ \A a \in AgentNames \ {"risk"} : verState[a] = "true"

\* C18: progress.start() is called at most once and only when the securing
\* phase has succeeded; progress.stop() is never called without a start, and
\* when run_hedge_fund has returned it was called exactly as often as start,
\* on the success path and on every failure path.
C18_ProgressBalanced ==
    entry = "run_hedge_fund" =>
        /\ progressStarts <= 1
        /\ progressStops <= progressStarts
        /\ progressStarts = 1 =>
              /\ \A a \in AgentNames :
                    regState[a] = "done" /\ verState[a] = "true"
              /\ error \in {"none", "create_workflow", "compile", "agent"}
        /\ error \in {"api_key", "secure_connect", "verify_identity",
                      "verification", "get_identity"} => progressStarts = 0
        /\ pc = "returned" => progressStops = progressStarts
        /\ pc # "returned" => progressStops = 0

\* an agent raised after the display was started: one start, one stop
C18_Witness ==
    /\ pc = "returned"
    /\ error = "agent"
    /\ progressStarts = 1
    /\ progressStops = 1

====
